---- MODULE Spec2Model ----
(***************************************************************************)
(* Model of metrics_collector.py: the Lambda entrypoint `handler`, which   *)
(* reads its configuration from os.environ, gathers six business metrics   *)
(* from accessor functions, publishes them to CloudWatch in batches of at  *)
(* most 20 and maps every exception to a status-500 result.                *)
(*                                                                         *)
(* Strings are TLA+ strings; Head, Tail, SubSeq, Len and \o are used on    *)
(* them character by character, so the conversions of the code (str of an  *)
(* exception, str.title, json.dumps) are computed, not assumed.            *)
(***************************************************************************)
EXTENDS Integers, Sequences, FiniteSets, TLC

VARIABLES environ, defs, pc, project_name, environment, metrics_data, g, i,
          now, calls, exc, results, trace, logs

vars == <<environ, defs, pc, project_name, environment, metrics_data, g, i,
          now, calls, exc, results, trace, logs>>

(***************************************************************************)
(* Bounds of the model.                                                    *)
(***************************************************************************)
\* largest hypothetical metric set handed to the batching loop
MaxSamples == 41

\* largest reading of the clock behind datetime.utcnow()
MaxClock == 1

(***************************************************************************)
(* Program constants.                                                      *)
(***************************************************************************)
batch_size == 20

Min(a, b) == IF a < b THEN a ELSE b

\* a local variable that has not been assigned yet
Unbound == "<unbound>"

\* no exception is being raised
NoExc == [type |-> "", args |-> <<>>]

(***************************************************************************)
(* String conversions.                                                     *)
(***************************************************************************)
Lowers == "abcdefghijklmnopqrstuvwxyz"

Uppers == "ABCDEFGHIJKLMNOPQRSTUVWXYZ"

CharAt(s, n) == SubSeq(s, n, n)

\* 1-based position of the first occurrence of the character c in s, 0 when
\* absent
IndexIn(c, s) ==
    LET ps == { p \in 1..Len(s) : CharAt(s, p) = c }
    IN  IF ps = {} THEN 0 ELSE CHOOSE p \in ps : \A q \in ps : p <= q

\* ''.join(parts): the strings of parts written one after the other
\* (halving the range keeps the evaluation shallow)
Join(parts) ==
    LET n == Len(parts)
        join[r \in (1..(n + 1)) \X (0..n)] ==
            IF r[1] > r[2] THEN ""
            ELSE IF r[1] = r[2] THEN parts[r[1]]
            ELSE join[<<r[1], (r[1] + r[2]) \div 2>>]
                    \o join[<<(r[1] + r[2]) \div 2 + 1, r[2]>>]
    IN  join[<<1, n>>]

IsLower(c) == IndexIn(c, Lowers) > 0

IsUpper(c) == IndexIn(c, Uppers) > 0

IsCased(c) == IsLower(c) \/ IsUpper(c)

ToUpper(c) == IF IsLower(c) THEN CharAt(Uppers, IndexIn(c, Lowers)) ELSE c

ToLower(c) == IF IsUpper(c) THEN CharAt(Lowers, IndexIn(c, Uppers)) ELSE c

\* str.title() at position p: a cased character that follows an uncased one
\* (or starts the string) is upper-cased, a cased character that follows a
\* cased one is lower-cased, any other character is kept
TitleChar(s, p) ==
    IF ~IsCased(CharAt(s, p)) THEN CharAt(s, p)
    ELSE IF p > 1 /\ IsCased(CharAt(s, p - 1)) THEN ToLower(CharAt(s, p))
    ELSE ToUpper(CharAt(s, p))

Title(s) == Join([p \in 1..Len(s) |-> TitleChar(s, p)])

\* f'SerenityERP/{environment.title()}'
Namespace(e) == "SerenityERP/" \o Title(e)

\* repr() of a str that holds no quote and no backslash
PyRepr(s) == "'" \o s \o "'"

\* str(e): BaseException.__str__ gives '' without arguments and str(args[0])
\* with one argument; KeyError.__str__ gives repr(args[0]) instead
Str(e) ==
    IF Len(e.args) = 0 THEN ""
    ELSE IF e.type = "KeyError" THEN PyRepr(e.args[1])
    ELSE e.args[1]

\* one character inside a JSON string literal as json.dumps writes it
JsonEscapeChar(c) ==
    IF c = "\"" THEN "\\\""
    ELSE IF c = "\\" THEN "\\\\"
    ELSE IF c = "\n" THEN "\\n"
    ELSE c

JsonEscape(s) == Join([p \in 1..Len(s) |-> JsonEscapeChar(CharAt(s, p))])

JsonString(s) == "\"" \o JsonEscape(s) \o "\""

\* a JSON array of strings, its items separated by ', '
JsonList(names) ==
    "[" \o Join([k \in 1..Len(names) |->
                    (IF k > 1 THEN ", " ELSE "") \o JsonString(names[k])])
        \o "]"

\* json.dumps({'error': text})
JsonDumpsError(text) == "{\"error\": " \o JsonString(text) \o "}"

\* json.dumps({'message': message, 'metrics': names})
JsonDumpsSuccess(message, names) ==
    "{\"message\": " \o JsonString(message)
        \o ", \"metrics\": " \o JsonList(names) \o "}"

(***************************************************************************)
(* The environment of one invocation.                                      *)
(***************************************************************************)
ConfigKeys == {"PROJECT_NAME", "ENVIRONMENT"}

ProjectNames == {"serenity"}

Environments == {"production", "dev-QA"}

\* os.environ restricted to the two keys the handler reads: a function whose
\* domain is the set of keys that are set
Environs ==
    UNION { { e \in [ks -> ProjectNames \cup Environments] :
                /\ ("PROJECT_NAME" \in ks => e["PROJECT_NAME"] \in ProjectNames)
                /\ ("ENVIRONMENT" \in ks => e["ENVIRONMENT"] \in Environments) }
            : ks \in SUBSET ConfigKeys }

\* the classes of the model that derive from Exception
ExceptionTypes ==
    {"KeyError", "Exception", "RuntimeError", "ValueError",
     "ClientError", "EndpointConnectionError"}

\* errors a data-source accessor may raise once it queries a real store
AccessorErrors ==
    { [type |-> "Exception", args |-> <<>>],
      [type |-> "RuntimeError", args |-> <<"db down">>],
      [type |-> "ValueError", args |-> <<"bad \"rate\" in C:\\metrics\n">>] }

\* errors cloudwatch.put_metric_data may raise
PutErrors ==
    { [type |-> "ClientError",
       args |-> <<"An error occurred (Throttling) when calling the PutMetricData operation: Rate exceeded">>],
      [type |-> "EndpointConnectionError",
       args |-> <<"Could not connect to the endpoint URL: \"https://monitoring.amazonaws.com/\"">>] }

\* the metric definitions of the handler in definition order: name, unit,
\* accessor and the number the accessor stub returns (in tenths)
MetricDefs ==
    << [MetricName |-> "ActiveUsers", Unit |-> "Count",
        accessor |-> "get_active_users_count", value |-> 450],
       [MetricName |-> "ActiveShifts", Unit |-> "Count",
        accessor |-> "get_active_shifts_count", value |-> 230],
       [MetricName |-> "EVVComplianceRate", Unit |-> "Percent",
        accessor |-> "get_evv_compliance_rate", value |-> 985],
       [MetricName |-> "ClaimProcessingRate", Unit |-> "Count/Second",
        accessor |-> "get_claim_processing_rate", value |-> 23],
       [MetricName |-> "ScheduleUtilizationRate", Unit |-> "Percent",
        accessor |-> "get_schedule_utilization_rate", value |-> 872],
       [MetricName |-> "HIPAAAuditEvents", Unit |-> "Count",
        accessor |-> "get_hipaa_audit_events", value |-> 120] >>

\* a hypothetical metric set of n definitions: the six of the handler first,
\* then further metrics of the same shape
ExtendedDefs(n) ==
    [k \in 1..n |->
        IF k <= Len(MetricDefs) THEN MetricDefs[k]
        ELSE [MetricName |-> "Metric" \o ToString(k), Unit |-> "Count",
              accessor |-> "get_metric_" \o ToString(k), value |-> 10 * k]]

\* the dict appended to metrics_data after an accessor returned
Sample(def, t) ==
    [MetricName |-> def.MetricName, Value |-> def.value,
     Unit |-> def.Unit, Timestamp |-> t]

\* variant: the two dimension values are attached to the wrong names
DimensionsSwapped(env, proj) ==
    << [Name |-> "Environment", Value |-> proj],
       [Name |-> "Project", Value |-> env] >>

\* the 'Dimensions' list of every MetricData entry
Dimensions(env, proj) ==
    << [Name |-> "Environment", Value |-> env],
       [Name |-> "Project", Value |-> proj] >>

\* one entry of the MetricData comprehension
MetricEntry(metric, env, proj) ==
    [MetricName |-> metric.MetricName, Value |-> metric.Value,
     Unit |-> metric.Unit, Timestamp |-> metric.Timestamp,
     Dimensions |-> Dimensions(env, proj)]

\* the Python slice s[a:b] for 0 <= a <= b
Slice(s, a, b) == SubSeq(s, a + 1, Min(b, Len(s)))

\* variant: the slice ends one sample early, metrics_data[i:i + batch_size - 1]
BatchDropsLast(data, start) == Slice(data, start, start + batch_size - 1)

\* metrics_data[i:i + batch_size]
Batch(data, start) == Slice(data, start, start + batch_size)

\* [metric['MetricName'] for metric in data]
Names(data) == [k \in 1..Len(data) |-> data[k].MetricName]

\* variant: the message counts the calls made instead of the samples
SuccessResultCountsCalls(data) ==
    [statusCode |-> 200,
     body |-> JsonDumpsSuccess(
                "Successfully collected " \o ToString(Len(calls)) \o " metrics",
                Names(data))]

\* the value returned on success
SuccessResult(data) ==
    [statusCode |-> 200,
     body |-> JsonDumpsSuccess(
                "Successfully collected " \o ToString(Len(data)) \o " metrics",
                Names(data))]

\* variant: the body hides the text of the error
ErrorResultGeneric(e) ==
    [statusCode |-> 500, body |-> JsonDumpsError("Internal error")]

\* the value returned by the except clause
ErrorResult(e) == [statusCode |-> 500, body |-> JsonDumpsError(Str(e))]

\* variant: the clause is `except KeyError`
IsKeyError(e) == e.type = "KeyError"

\* `except Exception` matches instances of Exception and of its subclasses
IsException(e) == e.type \in ExceptionTypes

\* variant: the next call is issued without waiting for the one in progress
LoopHasNextNoWait == pc \in {"publish", "awaiting"} /\ i < Len(metrics_data)

\* the for loop over range(0, len(metrics_data), batch_size) has a next index
LoopHasNext == pc = "publish" /\ i < Len(metrics_data)

\* the for loop is exhausted
LoopDone == pc = "publish" /\ i >= Len(metrics_data)

\* where control goes once g accessors have been called
AfterAccessor(k) == IF k >= Len(defs) THEN "publish" ELSE "gather"

AccessorEvent(name) == [ev |-> "accessor", accessor |-> name, batch |-> -1]

PutEvent(kind, b) == [ev |-> kind, accessor |-> "", batch |-> b]

(***************************************************************************)
(* Initial states.                                                         *)
(***************************************************************************)
\* the start of an invocation of handler
Init ==
    /\ environ \in Environs
    /\ defs = MetricDefs
    /\ pc = "read_project"
    /\ project_name = Unbound
    /\ environment = Unbound
    /\ metrics_data = <<>>
    /\ g = 1
    /\ i = 0
    /\ now = 0
    /\ calls = <<>>
    /\ exc = NoExc
    /\ results = <<>>
    /\ trace = <<>>
    /\ logs = <<>>

\* the handler at the head of its batching loop after it gathered a
\* hypothetical metric set of n samples
InitBatch ==
    \E n \in 0..MaxSamples, e \in Environments, p \in ProjectNames :
        /\ environ = [k \in ConfigKeys |-> IF k = "ENVIRONMENT" THEN e ELSE p]
        /\ defs = ExtendedDefs(n)
        /\ pc = "publish"
        /\ project_name = p
        /\ environment = e
        /\ metrics_data = [k \in 1..n |-> Sample(ExtendedDefs(n)[k], 0)]
        /\ g = n + 1
        /\ i = 0
        /\ now = 0
        /\ calls = <<>>
        /\ exc = NoExc
        /\ results = <<>>
        /\ trace = [k \in 1..n |-> AccessorEvent(ExtendedDefs(n)[k].accessor)]
        /\ logs = << [level |-> "INFO",
                      msg |-> "Starting metrics collection for "
                                \o p \o "-" \o e] >>

(***************************************************************************)
(* The steps of handler.                                                   *)
(***************************************************************************)
\* project_name = os.environ['PROJECT_NAME']
ReadProjectName ==
    /\ pc = "read_project"
    /\ IF "PROJECT_NAME" \in DOMAIN environ
       THEN /\ project_name' = environ["PROJECT_NAME"]
            /\ pc' = "read_environment"
            /\ exc' = exc
       ELSE /\ exc' = [type |-> "KeyError", args |-> <<"PROJECT_NAME">>]
            /\ pc' = "raised"
            /\ project_name' = project_name
    /\ UNCHANGED <<environ, defs, environment, metrics_data, g, i, now,
                   calls, results, trace, logs>>

\* variant: os.environ.get('ENVIRONMENT', '') in place of the subscript
ReadEnvironmentDefault ==
    /\ pc = "read_environment"
    /\ environment' = IF "ENVIRONMENT" \in DOMAIN environ
                      THEN environ["ENVIRONMENT"] ELSE ""
    /\ logs' = Append(logs,
                [level |-> "INFO",
                 msg |-> "Starting metrics collection for "
                           \o project_name \o "-" \o environment'])
    /\ metrics_data' = <<>>
    /\ g' = 1
    /\ pc' = AfterAccessor(0)
    /\ UNCHANGED <<environ, defs, project_name, i, now, calls, exc, results,
                   trace>>

\* environment = os.environ['ENVIRONMENT'], the start log line and
\* metrics_data = []
ReadEnvironment ==
    /\ pc = "read_environment"
    /\ IF "ENVIRONMENT" \in DOMAIN environ
       THEN /\ environment' = environ["ENVIRONMENT"]
            /\ logs' = Append(logs,
                        [level |-> "INFO",
                         msg |-> "Starting metrics collection for "
                                   \o project_name \o "-"
                                   \o environ["ENVIRONMENT"]])
            /\ metrics_data' = <<>>
            /\ g' = 1
            /\ pc' = AfterAccessor(0)
            /\ exc' = exc
       ELSE /\ exc' = [type |-> "KeyError", args |-> <<"ENVIRONMENT">>]
            /\ pc' = "raised"
            /\ UNCHANGED <<environment, logs, metrics_data, g>>
    /\ UNCHANGED <<environ, defs, project_name, i, now, calls, results,
                   trace>>

\* the g-th accessor is called and returns; the sample is appended with the
\* reading of datetime.utcnow()
GatherReturns ==
    /\ pc = "gather"
    /\ \E t \in now..MaxClock :
        /\ now' = t
        /\ metrics_data' = Append(metrics_data, Sample(defs[g], t))
    /\ trace' = Append(trace, AccessorEvent(defs[g].accessor))
    /\ g' = g + 1
    /\ pc' = AfterAccessor(g)
    /\ i' = 0
    /\ UNCHANGED <<environ, defs, project_name, environment, calls, exc,
                   results, logs>>

\* variant: a failing accessor is skipped and gathering goes on
GatherRaisesSkipped ==
    /\ pc = "gather"
    /\ \E e \in AccessorErrors : exc' = e
    /\ trace' = Append(trace, AccessorEvent(defs[g].accessor))
    /\ g' = g + 1
    /\ pc' = AfterAccessor(g)
    /\ i' = 0
    /\ UNCHANGED <<environ, defs, project_name, environment, metrics_data,
                   now, calls, results, logs>>

\* the g-th accessor is called and raises
GatherRaises ==
    /\ pc = "gather"
    /\ \E e \in AccessorErrors : exc' = e
    /\ trace' = Append(trace, AccessorEvent(defs[g].accessor))
    /\ pc' = "raised"
    /\ UNCHANGED <<environ, defs, project_name, environment, metrics_data,
                   g, i, now, calls, results, logs>>

\* one iteration of the loop starts: the batch is cut and
\* cloudwatch.put_metric_data is called with it
SubmitBatch ==
    /\ LoopHasNext
    /\ calls' = Append(calls,
                  [Namespace |-> Namespace(environment),
                   MetricData |->
                      [k \in 1..Len(Batch(metrics_data, i)) |->
                          MetricEntry(Batch(metrics_data, i)[k],
                                      environment, project_name)],
                   state |-> "in_progress"])
    /\ trace' = Append(trace, PutEvent("put", Len(calls)))
    /\ pc' = "awaiting"
    /\ UNCHANGED <<environ, defs, project_name, environment, metrics_data,
                   g, i, now, exc, results, logs>>

\* put_metric_data returns; the loop moves to the next index
PutReturns ==
    /\ pc = "awaiting"
    /\ calls' = [calls EXCEPT ![Len(calls)].state = "ok"]
    /\ trace' = Append(trace, PutEvent("put_returned", Len(calls) - 1))
    /\ i' = i + batch_size
    /\ pc' = "publish"
    /\ UNCHANGED <<environ, defs, project_name, environment, metrics_data,
                   g, now, exc, results, logs>>

\* variant: a failed call is ignored and the loop goes on to the next batch
PutRaisesIgnored ==
    /\ pc = "awaiting"
    /\ calls' = [calls EXCEPT ![Len(calls)].state = "raised"]
    /\ trace' = Append(trace, PutEvent("put_raised", Len(calls) - 1))
    /\ i' = i + batch_size
    /\ pc' = "publish"
    /\ UNCHANGED <<environ, defs, project_name, environment, metrics_data,
                   g, now, exc, results, logs>>

\* variant: a failed call is attempted once more before the error is raised
PutRaisesRetried ==
    /\ pc = "awaiting"
    /\ \E e \in PutErrors : exc' = e
    /\ calls' = [calls EXCEPT ![Len(calls)].state = "raised"]
    /\ trace' = Append(trace, PutEvent("put_raised", Len(calls) - 1))
    /\ pc' = IF Len(calls) >= 2 /\ calls[Len(calls) - 1].state = "raised"
             THEN "raised" ELSE "publish"
    /\ UNCHANGED <<environ, defs, project_name, environment, metrics_data,
                   g, i, now, results, logs>>

\* put_metric_data raises
PutRaises ==
    /\ pc = "awaiting"
    /\ \E e \in PutErrors : exc' = e
    /\ calls' = [calls EXCEPT ![Len(calls)].state = "raised"]
    /\ trace' = Append(trace, PutEvent("put_raised", Len(calls) - 1))
    /\ pc' = "raised"
    /\ UNCHANGED <<environ, defs, project_name, environment, metrics_data,
                   g, i, now, results, logs>>

\* after the loop: the success log line and the status-200 return
ReturnSuccess ==
    /\ LoopDone
    /\ logs' = Append(logs,
                [level |-> "INFO",
                 msg |-> "Successfully sent "
                           \o ToString(Len(metrics_data))
                           \o " metrics to CloudWatch"])
    /\ results' = Append(results, SuccessResult(metrics_data))
    /\ pc' = "done"
    /\ UNCHANGED <<environ, defs, project_name, environment, metrics_data,
                   g, i, now, calls, exc, trace>>

\* except Exception as e: the error log line and the status-500 return; an
\* exception the clause does not match leaves handler
ExceptClause ==
    /\ pc = "raised"
    /\ IF IsException(exc)
       THEN /\ logs' = Append(logs,
                        [level |-> "ERROR",
                         msg |-> "Error collecting metrics: " \o Str(exc)])
            /\ results' = Append(results, ErrorResult(exc))
            /\ pc' = "done"
       ELSE /\ pc' = "propagated"
            /\ UNCHANGED <<logs, results>>
    /\ UNCHANGED <<environ, defs, project_name, environment, metrics_data,
                   g, i, now, calls, exc, trace>>

Next ==
    \/ ReadProjectName
    \/ ReadEnvironment
    \/ GatherReturns
    \/ GatherRaises
    \/ SubmitBatch
    \/ PutReturns
    \/ PutRaises
    \/ ReturnSuccess
    \/ ExceptClause

\* one invocation of handler
Spec == Init /\ [][Next]_vars

\* one invocation; every call returns or raises and the interpreter keeps
\* executing the function
FairSpec == Init /\ [][Next]_vars /\ WF_vars(Next)

\* the handler, and its batching loop over hypothetical metric sets
SpecBatch == (Init \/ InitBatch) /\ [][Next]_vars

TypeOK ==
    /\ pc \in {"read_project", "read_environment", "gather", "publish",
               "awaiting", "raised", "done", "propagated"}
    /\ Len(results) <= 1
    /\ g \in 1..(Len(defs) + 1)
    /\ now \in 0..MaxClock

(***************************************************************************)
(* Reading a result back, as a caller of handler does with json.loads.     *)
(***************************************************************************)
StartsWith(s, p) == Len(s) >= Len(p) /\ SubSeq(s, 1, Len(p)) = p

EndsWith(s, p) ==
    Len(s) >= Len(p) /\ SubSeq(s, Len(s) - Len(p) + 1, Len(s)) = p

Drop(s, n) == SubSeq(s, n + 1, Len(s))

\* sub occurs in s
Contains(s, sub) ==
    \E p \in 1..(Len(s) - Len(sub) + 1) :
        SubSeq(s, p, p + Len(sub) - 1) = sub

\* the number of backslashes that stand directly before position p of s
BackslashesBefore(s, p) ==
    LET others == { q \in 1..(p - 1) : CharAt(s, q) # "\\" }
        last == IF others = {} THEN 0
                ELSE CHOOSE q \in others : \A r \in others : r <= q
    IN  p - 1 - last

\* position p of the body of a JSON string literal is the second character
\* of an escape sequence
IsEscaped(s, p) == BackslashesBefore(s, p) % 2 = 1

\* the character an escape sequence \d of a JSON string stands for
JsonUnescaped(d) == IF d = "n" THEN "\n" ELSE d

\* what position p of the body of a JSON string literal contributes to the
\* text it stands for
JsonDecodeChar(s, p) ==
    IF IsEscaped(s, p) THEN JsonUnescaped(CharAt(s, p))
    ELSE IF CharAt(s, p) = "\\" THEN ""
    ELSE CharAt(s, p)

\* s follows an opening quote: the text of the literal and what follows its
\* closing quote
ScanString(s) ==
    LET quotes == { p \in 1..Len(s) :
                        CharAt(s, p) = "\"" /\ ~IsEscaped(s, p) }
    IN  IF quotes = {} THEN [value |-> "<malformed>", rest |-> ""]
        ELSE LET close == CHOOSE p \in quotes : \A q \in quotes : p <= q
             IN  [value |-> Join([p \in 1..(close - 1) |->
                                     JsonDecodeChar(s, p)]),
                  rest |-> Drop(s, close)]

ErrorOpen == "{\"error\": \""

\* json.loads(body)['error']
JsonLoadsError(body) ==
    IF StartsWith(body, ErrorOpen)
    THEN LET r == ScanString(Drop(body, Len(ErrorOpen)))
         IN  IF r.rest = "}" THEN r.value ELSE "<malformed>"
    ELSE "<malformed>"

\* the end of a success body that lists the given metric names
MetricsMember(names) == ", \"metrics\": " \o JsonList(names) \o "}"

(***************************************************************************)
(* Observations of a run.                                                  *)
(***************************************************************************)
Returned == pc = "done" /\ Len(results) = 1

Status == results[1].statusCode

Body == results[1].body

RECURSIVE Concat(_)
\* the MetricData of the given calls, one after the other
Concat(cs) ==
    IF Len(cs) = 0 THEN <<>> ELSE cs[1].MetricData \o Concat(Tail(cs))

IsOk(c) == c.state = "ok"

\* the samples the backend accepted
Published == Concat(SelectSeq(calls, IsOk))

\* every entry handed to put_metric_data, in submission order
Submitted == Concat(calls)

\* the entries the gathered samples are published as
Entries ==
    [k \in 1..Len(metrics_data) |->
        MetricEntry(metrics_data[k], environ["ENVIRONMENT"],
                    environ["PROJECT_NAME"])]

IsAccessorEvent(ev) == ev.ev = "accessor"

AccessorCalls == SelectSeq(trace, IsAccessorEvent)

\* an accessor has raised in this invocation
AccessorRaised == exc \in AccessorErrors

MissingKeys == ConfigKeys \ DOMAIN environ

CeilDiv(n, d) == (n + d - 1) \div d

BatchSizes == [k \in 1..Len(calls) |-> Len(calls[k].MetricData)]

(***************************************************************************)
(* The claims.                                                             *)
(***************************************************************************)
\* C1: once any accessor has raised, however many succeeded before it,
\* put_metric_data has not been called and is never called, and the result
\* the invocation returns has statusCode 500.
C1_AccessorFailurePublishesNothing ==
    AccessorRaised =>
        /\ calls = <<>>
        /\ pc \in {"raised", "done"}
        /\ (pc = "done" => Returned /\ Status = 500)

\* an invocation returned after the sixth accessor raised, five having
\* succeeded
C1_Witness ==
    /\ Returned
    /\ AccessorRaised
    /\ Len(metrics_data) = 5
    /\ Status = 500

\* C2: when PROJECT_NAME or ENVIRONMENT is not set, no accessor is invoked,
\* put_metric_data is not called, and the result has statusCode 500 with an
\* error text that contains the name of a missing key.
C2_MissingConfigFailsBeforeGathering ==
    MissingKeys # {} =>
        /\ AccessorCalls = <<>>
        /\ metrics_data = <<>>
        /\ calls = <<>>
        /\ pc \in {"read_project", "read_environment", "raised", "done"}
        /\ (pc = "done" =>
              /\ Returned
              /\ Status = 500
              /\ \E k \in MissingKeys : Contains(JsonLoadsError(Body), k))

\* an invocation returned with PROJECT_NAME set and ENVIRONMENT missing
C2_Witness ==
    /\ Returned
    /\ MissingKeys = {"ENVIRONMENT"}
    /\ project_name \in ProjectNames
    /\ Status = 500

\* C3: every put_metric_data call carries between 1 and 20 samples; when
\* all calls of a run over N samples succeeded, there were ceil(N / 20) of
\* them and their batches, concatenated in submission order, are the
\* gathered samples in order (each sample exactly once).
C3_BatchesPartitionSamples ==
    /\ \A k \in 1..Len(calls) :
          Len(calls[k].MetricData) \in 1..batch_size
    /\ (Returned /\ Status = 200) =>
          /\ Len(calls) = CeilDiv(Len(metrics_data), batch_size)
          /\ Submitted = Entries
          /\ (Len(metrics_data) = 6 => BatchSizes = <<6>>)
          /\ (Len(metrics_data) = 25 => BatchSizes = <<20, 5>>)

\* a run over 25 samples returned 200 after two calls of sizes 20 and 5
C3_Witness ==
    /\ Returned
    /\ Status = 200
    /\ Len(metrics_data) = 25
    /\ BatchSizes = <<20, 5>>

\* C4: a result with statusCode 200 means every gathered sample is in a
\* put_metric_data call that completed successfully, and every metric name
\* the body lists is the name of a published sample.
C4_SuccessMeansAllPublished ==
    (Returned /\ Status = 200) =>
        /\ \A k \in 1..Len(Entries) :
              \E c \in 1..Len(calls) :
                  /\ calls[c].state = "ok"
                  /\ \E m \in 1..Len(calls[c].MetricData) :
                        calls[c].MetricData[m] = Entries[k]
        /\ EndsWith(Body, MetricsMember(Names(Published)))

\* a run over three batches returned 200
C4_Witness ==
    /\ Returned
    /\ Status = 200
    /\ Len(calls) = 3
    /\ Len(Published) = Len(metrics_data)

\* C5: when the call for a batch has raised, it is the last call made (no
\* later batch, no second attempt), every earlier call stays accepted,
\* nothing but put_metric_data was called, and the result has statusCode
\* 500.
C5_PublishFailureAborts ==
    \A k \in 1..Len(calls) :
        calls[k].state = "raised" =>
            /\ k = Len(calls)
            /\ \A j \in 1..(k - 1) : calls[j].state = "ok"
            /\ Published = SubSeq(Entries, 1, (k - 1) * batch_size)
            /\ \A j \in 1..(k - 1) :
                  calls[j].MetricData # calls[k].MetricData
            /\ pc \in {"raised", "done"}
            /\ (pc = "done" => Returned /\ Status = 500)

\* a run returned 500 after its second batch failed, the first one staying
\* published
C5_Witness ==
    /\ Returned
    /\ Status = 500
    /\ Len(calls) = 2
    /\ calls[1].state = "ok"
    /\ calls[2].state = "raised"
    /\ Len(Published) = batch_size

\* C6: no exception leaves handler, a result exists exactly when handler
\* has returned, its statusCode is 200 or 500, and every invocation
\* eventually returns.
C6_AlwaysReturnsOneResult ==
    /\ [](/\ pc # "propagated"
          /\ Len(results) <= 1
          /\ (pc = "done" <=> Len(results) = 1)
          /\ (Len(results) = 1 => results[1].statusCode \in {200, 500}))
    /\ <>(pc = "done")

\* an invocation returned 500 after put_metric_data raised
C6_Witness ==
    /\ Returned
    /\ exc \in PutErrors
    /\ Status = 500

\* an exception was raised with a non-empty message
HasMessage(e) == Len(e.args) > 0 /\ e.args[1] # ""

\* C7 as stated: every status-500 result carries a non-empty error
\* description that is the message text of the triggering error.
C7_Original ==
    (Returned /\ Status = 500) =>
        /\ JsonLoadsError(Body) # ""
        /\ JsonLoadsError(Body) = Str(exc)

\* C7 amended: every status-500 result carries the message text str(e) of
\* the triggering error verbatim; the description is non-empty whenever the
\* error was raised with a non-empty message.
C7_ErrorTextPreserved ==
    (Returned /\ Status = 500) =>
        /\ JsonLoadsError(Body) = Str(exc)
        /\ (HasMessage(exc) => JsonLoadsError(Body) # "")

\* an invocation returned 500 for an error whose message holds quotes, a
\* backslash and a newline
C7_Witness ==
    /\ Returned
    /\ Status = 500
    /\ exc.type = "ValueError"
    /\ JsonLoadsError(Body) = "bad \"rate\" in C:\\metrics\n"

\* both keys are set and all six accessors returned
SixGathered ==
    /\ MissingKeys = {}
    /\ Len(AccessorCalls) = 6
    /\ Len(metrics_data) = 6

SixNamesBody ==
    /\ Status = 200
    /\ Body = "{\"message\": \"Successfully collected 6 metrics\", "
                \o "\"metrics\": [\"ActiveUsers\", \"ActiveShifts\", "
                \o "\"EVVComplianceRate\", \"ClaimProcessingRate\", "
                \o "\"ScheduleUtilizationRate\", \"HIPAAAuditEvents\"]}"

\* C8 as stated: with both keys set and all six accessors succeeding, the
\* result is 200 with the six names and count 6, whatever put_metric_data
\* does.
C8_Original == (Returned /\ SixGathered) => SixNamesBody

\* C8 amended: with both keys set, all six accessors succeeding and the
\* put_metric_data call succeeding, the result is 200 and its body lists the
\* six metric names in definition order with count 6.
C8_SixMetricsOnSuccess ==
    (Returned /\ SixGathered /\ \A k \in 1..Len(calls) : calls[k].state = "ok")
        => SixNamesBody

\* the handler returned 200 after its one call succeeded
C8_Witness ==
    /\ Returned
    /\ SixGathered
    /\ defs = MetricDefs
    /\ Len(calls) = 1
    /\ calls[1].state = "ok"
    /\ Status = 200

\* C9: every entry of every put_metric_data call carries exactly the two
\* dimensions (Environment, value of ENVIRONMENT) and (Project, value of
\* PROJECT_NAME), in that order.
C9_SameDimensionsEverywhere ==
    \A k \in 1..Len(calls) :
        \A m \in 1..Len(calls[k].MetricData) :
            calls[k].MetricData[m].Dimensions =
                << [Name |-> "Environment", Value |-> environ["ENVIRONMENT"]],
                   [Name |-> "Project", Value |-> environ["PROJECT_NAME"]] >>

\* two calls were made for ENVIRONMENT = dev-QA
C9_Witness ==
    /\ Len(calls) = 2
    /\ Len(calls[2].MetricData) > 1
    /\ environ["ENVIRONMENT"] = "dev-QA"

\* position in the trace of the event of the given kind for batch b, 0 when
\* there is none
PositionOf(kind, b) ==
    LET ps == { p \in 1..Len(trace) :
                    trace[p].ev = kind /\ trace[p].batch = b }
    IN  IF ps = {} THEN 0 ELSE CHOOSE p \in ps : \A q \in ps : p <= q

\* C10: the accessors are called in definition order, all of them before
\* the first put_metric_data call; the calls are made in batch order, each
\* one only after the one before it has returned, and at most one call is
\* in progress.
C10_StrictlySequential ==
    /\ \A k \in 1..Len(AccessorCalls) :
          AccessorCalls[k].accessor = defs[k].accessor
    /\ calls # <<>> =>
          /\ Len(AccessorCalls) = Len(defs)
          /\ \A p \in 1..Len(defs) : trace[p].ev = "accessor"
    /\ \A k \in 1..Len(calls) :
          /\ PositionOf("put", k - 1) > 0
          /\ calls[k].MetricData =
                SubSeq(Entries, (k - 1) * batch_size + 1,
                       Min(k * batch_size, Len(Entries)))
          /\ k > 1 =>
                /\ PositionOf("put_returned", k - 2) > 0
                /\ PositionOf("put_returned", k - 2) < PositionOf("put", k - 1)
    /\ Cardinality({ k \in 1..Len(calls) : calls[k].state = "in_progress" })
          <= 1
    /\ Cardinality({ p \in 1..Len(trace) : trace[p].ev = "put" }) = Len(calls)

\* the third call is in progress after the first two returned
C10_Witness ==
    /\ pc = "awaiting"
    /\ Len(calls) = 3
    /\ calls[3].state = "in_progress"
    /\ Len(AccessorCalls) = Len(defs)

====
